---------------------------- MODULE Spec2Model ----------------------------
(***************************************************************************)
(* Time-series image layers of worldwind-timeseries.                       *)
(*                                                                         *)
(*   Spec       the single-image layer (BMNGOneImageLayer): prePopulate,   *)
(*              retrieveImage and the image.onload / image.onerror         *)
(*              callbacks over the draw context's resource cache, the      *)
(*              in-flight list and the absent-resource list.               *)
(*   SpecIndex  the time-series layer (WeatherLayer): the slot table built *)
(*              by prePopulate, nearestLayerName and isPrePopulated.       *)
(*   SpecRender the WeatherLayer's rendering and its sub-layers' images.   *)
(*                                                                         *)
(* The TimeSeriesLayer of the application and the page's script that       *)
(* polls it have no specification: the module of TimeSeriesLayer lists     *)
(* one dependency for the four parameters of its factory, so Layer is      *)
(* undefined and Object.create(Layer.prototype) throws while the module    *)
(* is defined; the class never exists and the script never runs.           *)
(*                                                                         *)
(* Times are integers; one unit stands for 30 minutes, so that the         *)
(* program's sequence "2016-07-12/2016-07-18/PT3H" is start 0, end 288,    *)
(* period 6.                                                               *)
(***************************************************************************)
EXTENDS Integers, Sequences, FiniteSets, TLC

VARIABLES
    \* ---- draw context and single-image layers
    cache,               \* dc.gpuResourceCache: image path -> size (0: not held)
    currentRetrievals,   \* this.currentRetrievals of the layers: the paths in
                         \* flight; a layer is known by its image path
    absent,              \* absentResourceList: image path -> time of mark, or NoMark
    now,                 \* Date.now()
    pending,             \* Image objects whose src was set and that have not called back
    fetchCount,          \* image path -> number of times image.src was set
    redraws,             \* number of REDRAW events dispatched on the canvas
    currentTilesInvalid, \* image path -> the layer's currentTilesInvalid flag
    \* ---- time-series layer
    seq,                 \* the PeriodicTimeSequence's start, end and period
    currentTime,         \* layer -> timeSequence.currentTime
    availableTimes,      \* WeatherLayer.availableTimes (class level)
    layerNames,          \* layer -> this.layerNames
    layers,              \* layer -> names of this.layers
    \* ---- the last call and what it returned
    last,
    ret

fetchVars == <<cache, currentRetrievals, absent, pending, fetchCount, redraws,
               currentTilesInvalid>>
indexVars == <<seq, currentTime, availableTimes, layerNames, layers>>
vars == <<cache, currentRetrievals, absent, now, pending, fetchCount, redraws,
          currentTilesInvalid, seq, currentTime, availableTimes, layerNames,
          layers, last, ret>>

---------------------------------------------------------------------------
(* Bounds *)

NumImages == 2      \* single-image layers (image paths) in Spec
MaxFetches == 3     \* fetches issued in all
MaxTime == 3        \* last value of the clock
MaxSize == 1        \* largest texture size
CoolDown == 2       \* the absent list's cool-down, in clock units
NumLayers == 2      \* WeatherLayer objects in SpecIndex
MaxStart == 1       \* latest start of a drawn sequence
MaxRange == 5       \* largest end - start of a drawn sequence
MaxPeriod == 3      \* longest period of a drawn sequence
Far == 1000         \* how far outside the sequence a query time may lie

---------------------------------------------------------------------------
(* Strings and keys *)

Undefined == "undefined"

Digits == <<"0", "1", "2", "3", "4", "5", "6", "7", "8", "9">>

RECURSIVE toString(_)
toString(i) ==
    IF i < 10 THEN Digits[i + 1]
    ELSE toString(i \div 10) \o Digits[(i % 10) + 1]

\* the two-digit name the build loop gives slot i
SlotName(i) == IF i < 10 THEN "0" \o toString(i) ELSE toString(i)

pathToData == "/standalonedata/WORLD-CED/test/"

\* createSubLayer's data path, which the sub-layer keeps as its imagePath
dataPath(layerName) == pathToData \o layerName \o ".png"

Tiles == {dataPath(SlotName(i)) : i \in 0 .. NumImages - 1}

---------------------------------------------------------------------------
(* The last call *)

NoCall == [op |-> "none", path |-> "", layer |-> 0, time |-> 0,
           suppressRedraw |-> FALSE, texture |-> 0, wwd |-> TRUE,
           rebuild |-> FALSE]

Returned == [thrown |-> "", bool |-> FALSE, name |-> ""]


---------------------------------------------------------------------------
(* Resource cache, absent list, in-flight list *)

NoMark == -1
NoTexture == 0
Sizes == 1 .. MaxSize

containsResource(imagePath) ==
    imagePath \in DOMAIN cache /\ cache[imagePath] # 0

putResource(imagePath, size) == [cache EXCEPT ![imagePath] = size]

isResourceAbsent(imagePath) ==
    /\ absent[imagePath] # NoMark
    /\ now - absent[imagePath] < CoolDown

markResourceAbsent(imagePath) == [absent EXCEPT ![imagePath] = now]

unmarkResourceAbsent(imagePath) == [absent EXCEPT ![imagePath] = NoMark]

\* Array.prototype.indexOf, 0-based, -1 when missing
indexOf(s, x) ==
    IF \E i \in 1 .. Len(s) : s[i] = x
    THEN (CHOOSE i \in 1 .. Len(s) : s[i] = x /\ \A j \in 1 .. i - 1 : s[j] # x) - 1
    ELSE -1

RemoveAt(s, i) == SubSeq(s, 1, i - 1) \o SubSeq(s, i + 1, Len(s))

removeFromCurrentRetrievals(imagePath) ==
    LET index == indexOf(currentRetrievals, imagePath)
    IN  IF index > -1 THEN RemoveAt(currentRetrievals, index + 1)
        ELSE currentRetrievals

resourceUrlForTile(imagePath) == imagePath

isImageLayerInMemory(tile) == containsResource(tile)

\* this.currentRetrievals.indexOf(tile.imagePath) >= 0 for the layer of
\* imagePath. There is one layer object to an image path, so the one list
\* stands for the layers' lists whether the layers share a list or each has
\* its own: the list is made by code that is not part of the repository.
InFlight(imagePath) == indexOf(currentRetrievals, imagePath) >= 0

Outstanding(imagePath) ==
    Cardinality({i \in 1 .. Len(pending) : pending[i].imagePath = imagePath})

\* the number of fetches issued so far, over all image paths
RECURSIVE SumOver(_, _)
SumOver(f, S) ==
    IF S = {} THEN 0
    ELSE LET x == CHOOSE y \in S : TRUE IN f[x] + SumOver(f, S \ {x})

Issued == SumOver(fetchCount, DOMAIN fetchCount)

---------------------------------------------------------------------------
(* BMNGOneImageLayer *)

Call(op, path, suppressRedraw, texture, wwd) ==
    [NoCall EXCEPT !.op = op, !.path = path, !.suppressRedraw = suppressRedraw,
                   !.texture = texture, !.wwd = wwd]

\* retrieveImage without the look at the in-flight list
retrieveImage_NoInFlightCheck(tile, suppressRedraw) ==
    IF isResourceAbsent(tile)
    THEN UNCHANGED fetchVars
    ELSE /\ Issued < MaxFetches
         /\ currentRetrievals' = Append(currentRetrievals, tile)
         /\ pending' = Append(pending,
                [imagePath |-> tile, suppressRedraw |-> suppressRedraw])
         /\ fetchCount' = [fetchCount EXCEPT ![tile] = @ + 1]
         /\ UNCHANGED <<cache, absent, redraws, currentTilesInvalid>>

\* retrieveImage without the look at the absent list
retrieveImage_NoAbsentCheck(tile, suppressRedraw) ==
    IF indexOf(currentRetrievals, tile) < 0
    THEN /\ Issued < MaxFetches
         /\ currentRetrievals' = Append(currentRetrievals, tile)
         /\ pending' = Append(pending,
                [imagePath |-> tile, suppressRedraw |-> suppressRedraw])
         /\ fetchCount' = [fetchCount EXCEPT ![tile] = @ + 1]
         /\ UNCHANGED <<cache, absent, redraws, currentTilesInvalid>>
    ELSE UNCHANGED fetchVars

\* retrieveImage(dc, tile, suppressRedraw): the in-flight list is looked at
\* first, then the absent list; a fetch is issued by setting image.src.
retrieveImage(tile, suppressRedraw) ==
    IF indexOf(currentRetrievals, tile) < 0
    THEN IF isResourceAbsent(tile)
         THEN UNCHANGED fetchVars
         ELSE IF resourceUrlForTile(tile) = ""
              THEN /\ currentTilesInvalid' = [currentTilesInvalid EXCEPT ![tile] = TRUE]
                   /\ UNCHANGED <<cache, currentRetrievals, absent, pending,
                                  fetchCount, redraws>>
              ELSE /\ Issued < MaxFetches
                   /\ currentRetrievals' = Append(currentRetrievals, tile)
                   /\ pending' = Append(pending,
                          [imagePath |-> tile, suppressRedraw |-> suppressRedraw])
                   /\ fetchCount' = [fetchCount EXCEPT ![tile] = @ + 1]
                   /\ UNCHANGED <<cache, absent, redraws, currentTilesInvalid>>
    ELSE UNCHANGED fetchVars

\* prePopulate without the look at the cache
prePopulate_NoCacheCheck(tile, wwd) ==
    IF ~wwd
    THEN /\ ret' = [Returned EXCEPT !.thrown = "ReferenceError"]
         /\ UNCHANGED fetchVars
    ELSE /\ ret' = Returned
         /\ retrieveImage(tile, TRUE)

\* prePopulate(wwd): throws without a world window; retrieves the image,
\* redraw suppressed, unless the cache holds it.
prePopulate(tile, wwd) ==
    IF ~wwd
    THEN /\ ret' = [Returned EXCEPT !.thrown = "ReferenceError"]
         /\ UNCHANGED fetchVars
    ELSE /\ ret' = Returned
         /\ IF ~isImageLayerInMemory(tile)
            THEN retrieveImage(tile, TRUE)
            ELSE UNCHANGED fetchVars

\* isPrePopulated(wwd)
isPrePopulated(tile, wwd) ==
    IF ~wwd
    THEN ret' = [Returned EXCEPT !.thrown = "ReferenceError"]
    ELSE ret' = [Returned EXCEPT !.bool = isImageLayerInMemory(tile)]

\* The fetch a render of the layer starts for an image that is not there
\* yet: the same steps, with the redraw not suppressed.
ensureFetchStarted(identifier, suppressNotify) ==
    IF containsResource(identifier)
    THEN UNCHANGED fetchVars
    ELSE retrieveImage(identifier, suppressNotify)

\* image.onload of the i-th outstanding image. Its first statement is
\* Logger.log(...), and the file binds no Logger: the callback ends there
\* with a ReferenceError (reported by OnLoad). The Image has called back;
\* createTexture is not reached, so texture, what it would have returned,
\* plays no part, and the path stays in the in-flight list.
onload(i, texture) ==
    /\ pending' = RemoveAt(pending, i)
    /\ UNCHANGED <<cache, currentRetrievals, absent, fetchCount, redraws,
                   currentTilesInvalid>>

\* onerror that fetches the failed image again by itself
onerror_Retry(i) ==
    LET imagePath == pending[i].imagePath
    IN  /\ absent' = markResourceAbsent(imagePath)
        /\ IF Issued < MaxFetches
           THEN /\ pending' = Append(RemoveAt(pending, i), pending[i])
                /\ currentRetrievals' =
                       Append(removeFromCurrentRetrievals(imagePath), imagePath)
                /\ fetchCount' = [fetchCount EXCEPT ![imagePath] = @ + 1]
           ELSE /\ pending' = RemoveAt(pending, i)
                /\ currentRetrievals' = removeFromCurrentRetrievals(imagePath)
                /\ UNCHANGED fetchCount
        /\ UNCHANGED <<cache, redraws, currentTilesInvalid>>

\* onerror that leaves the image in the in-flight list
onerror_KeepInFlight(i) ==
    LET imagePath == pending[i].imagePath
    IN  /\ pending' = RemoveAt(pending, i)
        /\ absent' = markResourceAbsent(imagePath)
        /\ UNCHANGED <<currentRetrievals, cache, fetchCount, redraws,
                       currentTilesInvalid>>

\* onerror that empties the in-flight list
onerror_ClearRetrievals(i) ==
    LET imagePath == pending[i].imagePath
    IN  /\ pending' = RemoveAt(pending, i)
        /\ currentRetrievals' = <<>>
        /\ absent' = markResourceAbsent(imagePath)
        /\ UNCHANGED <<cache, fetchCount, redraws, currentTilesInvalid>>

\* image.onerror of the i-th outstanding image: the path leaves the in-flight
\* list and is marked absent; the last statement, Logger.log(...), then ends
\* the callback with a ReferenceError (reported by OnError).
onerror(i) ==
    LET imagePath == pending[i].imagePath
    IN  /\ pending' = RemoveAt(pending, i)
        /\ currentRetrievals' = removeFromCurrentRetrievals(imagePath)
        /\ absent' = markResourceAbsent(imagePath)
        /\ UNCHANGED <<cache, fetchCount, redraws, currentTilesInvalid>>

---------------------------------------------------------------------------
(* Spec: the single-image layers over one draw context. The draw context's
   cache is shared with every other layer of the window: it starts holding
   any of the images, loaded before by the cache's own texture retrieval
   (the one OneImageLayer.prePopulate asks for). *)

Init ==
  \E loaded \in SUBSET Tiles :
    /\ cache = [t \in Tiles |-> IF t \in loaded THEN MaxSize ELSE 0]
    /\ currentRetrievals = <<>>
    /\ absent = [t \in Tiles |-> NoMark]
    /\ now = 0
    /\ pending = <<>>
    /\ fetchCount = [t \in Tiles |-> 0]
    /\ redraws = 0
    /\ currentTilesInvalid = [t \in Tiles |-> FALSE]
    /\ seq = [start |-> 0, end |-> 288, period |-> 6]  \* not used by Spec
    /\ currentTime = <<>>
    /\ availableTimes = <<>>
    /\ layerNames = <<>>
    /\ layers = <<>>
    /\ last = NoCall
    /\ ret = Returned

PrePopulate ==
    \E tile \in Tiles, wwd \in BOOLEAN :
        /\ prePopulate(tile, wwd)
        /\ last' = Call("prePopulate", tile, TRUE, 0, wwd)
        /\ UNCHANGED <<now, indexVars>>

IsPrePopulated ==
    \E tile \in Tiles, wwd \in BOOLEAN :
        /\ isPrePopulated(tile, wwd)
        /\ last' = Call("isPrePopulated", tile, FALSE, 0, wwd)
        /\ UNCHANGED <<fetchVars, now, indexVars>>

Render ==
    \E tile \in Tiles :
        /\ ensureFetchStarted(tile, FALSE)
        /\ last' = Call("render", tile, FALSE, 0, TRUE)
        /\ ret' = Returned
        /\ UNCHANGED <<now, indexVars>>

OnLoad ==
    \E i \in 1 .. Len(pending), texture \in {NoTexture} \cup Sizes :
        /\ onload(i, texture)
        /\ last' = Call("onload", pending[i].imagePath, pending[i].suppressRedraw,
                        texture, TRUE)
        /\ ret' = [Returned EXCEPT !.thrown = "ReferenceError"]
        /\ UNCHANGED <<now, indexVars>>

OnError ==
    \E i \in 1 .. Len(pending) :
        /\ onerror(i)
        /\ last' = Call("onerror", pending[i].imagePath, pending[i].suppressRedraw,
                        0, TRUE)
        /\ ret' = [Returned EXCEPT !.thrown = "ReferenceError"]
        /\ UNCHANGED <<now, indexVars>>

Tick ==
    /\ now < MaxTime
    /\ now' = now + 1
    /\ last' = [NoCall EXCEPT !.op = "tick"]
    /\ ret' = Returned
    /\ UNCHANGED <<fetchVars, indexVars>>

Next ==
    \/ PrePopulate
    \/ IsPrePopulated
    \/ Render
    \/ OnLoad
    \/ OnError
    \/ Tick

Spec == Init /\ [][Next]_vars

---------------------------------------------------------------------------
(* PeriodicTimeSequence *)

\* "2016-07-12/2016-07-18/PT3H"
ProgramSequence == [start |-> 0, end |-> 288, period |-> 6]

intervalMilliseconds == seq.end - seq.start

incrementTime(t, period) == t + period

\* timeSequence.next(): the time after t, back to the start once past the end
next(t) ==
    IF incrementTime(t, seq.period) > seq.end THEN seq.start
    ELSE incrementTime(t, seq.period)

---------------------------------------------------------------------------
(* WeatherLayer *)

Layers == 1 .. NumLayers

\* obj[field] of a JavaScript object: undefined when it has no such property
Get(obj, field) == IF field \in DOMAIN obj THEN obj[field] ELSE Undefined

\* the number of passes of for (i = 0; i < length; i++), where
\* length = intervalMilliseconds/period + 1 is a fraction when the period
\* does not divide the interval: i < length is i * period <
\* intervalMilliseconds + period
passes(period) ==
    CHOOSE n \in 0 .. intervalMilliseconds + 1 :
        /\ ~(n * period < intervalMilliseconds + period)
        /\ \A i \in 0 .. n - 1 : i * period < intervalMilliseconds + period

\* the values timeSequence.currentTime takes while the build loop runs: times
\* is extended by timeSequence.next() of its last element until it has n
\* elements
RECURSIVE timesUpTo(_, _)
timesUpTo(times, n) ==
    IF Len(times) >= n THEN times
    ELSE timesUpTo(Append(times, next(times[Len(times)])), n)

\* array after array[i] = values[i + 1] for i = 0 .. Len(values) - 1
SetAll(array, values) ==
    [k \in 1 .. (IF Len(values) > Len(array) THEN Len(values) ELSE Len(array)) |->
        IF k <= Len(values) THEN values[k] ELSE array[k]]

\* the build loop stopping one pass early
buildLoop_OneShort(period, cur, avail, names) ==
    LET n == passes(period) - 1
        times == timesUpTo(<<cur>>, n + 1)
        slotTimes == [k \in 1 .. n |-> times[k]]
        slots == [k \in 1 .. n |->
                     [month |-> SlotName(k - 1), time |-> times[k]]]
    IN  [currentTime |-> times[n + 1],
         availableTimes |-> SetAll(avail, slotTimes),
         layerNames |-> SetAll(names, slots)]

\* the build loop: pass i sets availableTimes[i] to the sequence's current
\* time and layerNames[i] to {month, time}, then advances the sequence;
\* times[i + 1] is the current time at the start of pass i, times[n + 1] the
\* one the loop leaves
buildLoop(period, cur, avail, names) ==
    LET n == passes(period)
        times == timesUpTo(<<cur>>, n + 1)
        slotTimes == [k \in 1 .. n |-> times[k]]
        slots == [k \in 1 .. n |->
                     [month |-> SlotName(k - 1), time |-> times[k]]]
    IN  [currentTime |-> times[n + 1],
         availableTimes |-> SetAll(avail, slotTimes),
         layerNames |-> SetAll(names, slots)]

\* the names the second loop of prePopulate reads, this.layerNames[i].name
namesRead(names) == {Get(names[i], "name") : i \in 1 .. Len(names)}

\* availableTimes.length != length, with length = intervalMilliseconds/period
\* + 1 for the sequence's own period
lengthDiffers ==
    Len(availableTimes) * seq.period # intervalMilliseconds + seq.period

\* prePopulate that runs the build loop on every call and pushes its slots
WeatherLayer_prePopulate_PushAlways(l, wwd) ==
    IF ~wwd
    THEN /\ ret' = [Returned EXCEPT !.thrown = "ArgumentError"]
         /\ UNCHANGED <<currentTime, availableTimes, layerNames, layers>>
    ELSE LET period == incrementTime(currentTime[l], seq.period) - currentTime[l]
             built == buildLoop(period, currentTime[l], <<>>, <<>>)
         IN  /\ ret' = Returned
             /\ currentTime' = [currentTime EXCEPT ![l] = built.currentTime]
             /\ availableTimes' = availableTimes \o built.availableTimes
             /\ layerNames' = [layerNames EXCEPT ![l] = @ \o built.layerNames]
             /\ layers' = [layers EXCEPT
                               ![l] = @ \cup namesRead(built.layerNames)]

\* prePopulate(wwd): the build loop when availableTimes has not the expected
\* length, then a sub-layer is created (createSubLayer) for every name read
\* that has none; the sub-layers are not asked to retrieve their images.
WeatherLayer_prePopulate(l, wwd) ==
    IF ~wwd
    THEN /\ ret' = [Returned EXCEPT !.thrown = "ArgumentError"]
         /\ UNCHANGED <<currentTime, availableTimes, layerNames, layers>>
    ELSE LET period == incrementTime(currentTime[l], seq.period) - currentTime[l]
             \* availableTimes.length != length
             rebuild == Len(availableTimes) * period # intervalMilliseconds + period
             built == IF rebuild
                      THEN buildLoop(period, currentTime[l], availableTimes,
                                     layerNames[l])
                      ELSE [currentTime |-> currentTime[l],
                            availableTimes |-> availableTimes,
                            layerNames |-> layerNames[l]]
         IN  /\ ret' = Returned
             /\ currentTime' = [currentTime EXCEPT ![l] = built.currentTime]
             /\ availableTimes' = built.availableTimes
             /\ layerNames' = [layerNames EXCEPT ![l] = built.layerNames]
             /\ layers' = [layers EXCEPT
                               ![l] = @ \cup namesRead(built.layerNames)]

\* isPrePopulated(wwd): the loop over the sub-layers is commented out
WeatherLayer_isPrePopulated(l, wwd) ==
    ret' = [Returned EXCEPT !.bool = TRUE]

\* the slot whose name the loop of nearestLayerName returns (1-based): the
\* first i with leftTime <= milliseconds <= rightTime decides; 0 when the
\* loop ends without a return
bracket(names, milliseconds) ==
    LET within(i) == /\ milliseconds >= names[i].time
                     /\ milliseconds <= names[i + 1].time
        found == {i \in 1 .. Len(names) - 1 : within(i)}
    IN  IF found = {} THEN 0
        ELSE LET i == CHOOSE j \in found : \A k \in found : j <= k
                 dLeft == milliseconds - names[i].time
                 dRight == names[i + 1].time - milliseconds
             IN  IF dLeft < dRight THEN i ELSE i + 1

nearestIndex(names, milliseconds) ==
    IF milliseconds <= names[1].time THEN 1
    ELSE IF milliseconds >= names[Len(names)].time THEN Len(names)
    ELSE bracket(names, milliseconds)

\* nearestLayerName(time) on a layer that has slots
nearestLayerName(l, time) ==
    LET names == layerNames[l]
        index == nearestIndex(names, time)
    IN  IF index = 0 THEN Undefined ELSE Get(names[index], "name")

---------------------------------------------------------------------------
(* SpecIndex: the time-series layers of one process *)

\* the program's sequence and the small sequences drawn beside it
Sequences ==
    {ProgramSequence} \cup
    {[start |-> s, end |-> s + r, period |-> p] :
        s \in 0 .. MaxStart, r \in 0 .. MaxRange, p \in 1 .. MaxPeriod}

\* the query times tried on a sequence
Queries ==
    (seq.start - 2 .. seq.end + 2) \cup {seq.start - Far, seq.end + Far}

InitIndex ==
    /\ cache = [t \in {} |-> 0]
    /\ currentRetrievals = <<>>
    /\ absent = [t \in {} |-> NoMark]
    /\ now = 0
    /\ pending = <<>>
    /\ fetchCount = [t \in {} |-> 0]
    /\ redraws = 0
    /\ currentTilesInvalid = [t \in {} |-> FALSE]
    /\ seq \in Sequences
    /\ currentTime = [l \in Layers |-> seq.start]
    /\ availableTimes = <<>>
    /\ layerNames = [l \in Layers |-> <<>>]
    /\ layers = [l \in Layers |-> {}]
    /\ last = NoCall
    /\ ret = Returned

LayerCall(op, l, time, wwd) ==
    [NoCall EXCEPT !.op = op, !.layer = l, !.time = time, !.wwd = wwd]

LayerPrePopulate ==
    \E l \in Layers, wwd \in BOOLEAN :
        /\ WeatherLayer_prePopulate(l, wwd)
        /\ last' = [LayerCall("prePopulate", l, 0, wwd) EXCEPT
                        !.rebuild = wwd /\ lengthDiffers]
        /\ UNCHANGED <<fetchVars, now, seq>>

LayerIsPrePopulated ==
    \E l \in Layers, wwd \in BOOLEAN :
        /\ WeatherLayer_isPrePopulated(l, wwd)
        /\ last' = LayerCall("isPrePopulated", l, 0, wwd)
        /\ UNCHANGED <<fetchVars, now, indexVars>>

NearestLayerName ==
    \E l \in Layers, time \in Queries :
        /\ IF Len(layerNames[l]) = 0
           THEN ret' = [Returned EXCEPT !.thrown = "TypeError"]
           ELSE ret' = [Returned EXCEPT !.name = nearestLayerName(l, time)]
        /\ last' = LayerCall("nearestLayerName", l, time, TRUE)
        /\ UNCHANGED <<fetchVars, now, indexVars>>

NextIndex ==
    \/ LayerPrePopulate
    \/ LayerIsPrePopulated
    \/ NearestLayerName

SpecIndex == InitIndex /\ [][NextIndex]_vars

---------------------------------------------------------------------------
(* SpecRender: time-series layers, their rendering and their sub-layers'
   images over one draw context. The draw context is shared with the
   single-image layers of Spec: it starts with any of their images marked
   absent by a fetch that failed (a state Spec reaches by prePopulate and
   onerror). The clock stands still here: the expiry of the cool-down is the
   subject of Spec. *)

\* doRender that goes on with the name undefined when the layer has no slot
WeatherLayer_doRender_NoThrow(l, time) ==
    LET nearestName == IF Len(layerNames[l]) = 0 THEN Undefined
                       ELSE nearestLayerName(l, time)
    IN  /\ ret' = [Returned EXCEPT !.name = nearestName]
        /\ layers' = [layers EXCEPT ![l] = @ \cup {nearestName}]
        /\ ensureFetchStarted(dataPath(nearestName), FALSE)

\* doRender(dc) with this.time = time: nearestLayer(time) takes the name from
\* nearestLayerName, creates the sub-layer of that name when there is none,
\* and the sub-layer is rendered; rendering the sub-layer's image is the
\* fetch with the redraw not suppressed.
WeatherLayer_doRender(l, time) ==
    IF Len(layerNames[l]) = 0
    THEN /\ ret' = [Returned EXCEPT !.thrown = "TypeError"]
         /\ UNCHANGED <<fetchVars, layers>>
    ELSE LET nearestName == nearestLayerName(l, time)
         IN  /\ ret' = [Returned EXCEPT !.name = nearestName]
             /\ layers' = [layers EXCEPT ![l] = @ \cup {nearestName}]
             /\ ensureFetchStarted(dataPath(nearestName), FALSE)

\* the sequences SpecRender draws: one slot; two slots three units apart;
\* three slots two units apart
RenderSequences ==
    {[start |-> 0, end |-> 0, period |-> 1],
     [start |-> 0, end |-> 3, period |-> 3],
     [start |-> 0, end |-> 4, period |-> 2]}

\* the image paths of the sub-layers a layer can have: the slots' and the
\* one of the name undefined
RenderTiles ==
    {dataPath(Undefined)} \cup {dataPath(SlotName(i)) : i \in 0 .. NumImages}

InitRender ==
    \E failed \in SUBSET Tiles :
        /\ cache = [t \in RenderTiles |-> 0]
        /\ currentRetrievals = <<>>
        /\ absent = [t \in RenderTiles |-> IF t \in failed THEN 0 ELSE NoMark]
        /\ now = 0
        /\ pending = <<>>
        /\ fetchCount = [t \in RenderTiles |-> IF t \in failed THEN 1 ELSE 0]
        /\ redraws = 0
        /\ currentTilesInvalid = [t \in RenderTiles |-> FALSE]
        /\ seq \in RenderSequences
        /\ currentTime = [l \in Layers |-> seq.start]
        /\ availableTimes = <<>>
        /\ layerNames = [l \in Layers |-> <<>>]
        /\ layers = [l \in Layers |-> {}]
        /\ last = NoCall
        /\ ret = Returned

LayerRender ==
    \E l \in Layers, time \in Queries :
        /\ WeatherLayer_doRender(l, time)
        /\ last' = [LayerCall("render", l, time, TRUE) EXCEPT
                        !.path = IF Len(layerNames[l]) = 0 THEN ""
                                 ELSE dataPath(nearestLayerName(l, time))]
        /\ UNCHANGED <<now, seq, currentTime, availableTimes, layerNames>>

NextRender ==
    \/ LayerPrePopulate
    \/ LayerIsPrePopulated
    \/ NearestLayerName
    \/ LayerRender
    \/ OnLoad
    \/ OnError

SpecRender == InitRender /\ [][NextRender]_vars

---------------------------------------------------------------------------
(* Claims about the single-image layer (Spec) *)

\* the step is a call, with a world window, of one of the two operations that
\* can start a fetch for image path t
FetchCallOn(t) ==
    /\ last'.op \in {"prePopulate", "render"}
    /\ last'.path = t
    /\ last'.wwd

\* C1: at most one fetch is outstanding per image path, and only for a path
\* in the in-flight list; a call for a path that is in the in-flight list
\* issues no fetch and leaves the in-flight list, the cache and the absent
\* list as they were.
C1_AtMostOneFetch ==
    /\ [](\A t \in Tiles : /\ Outstanding(t) <= 1
                           /\ Outstanding(t) = 1 => InFlight(t))
    /\ [][\A t \in Tiles :
            (FetchCallOn(t) /\ InFlight(t)) =>
                UNCHANGED <<fetchCount, pending, currentRetrievals, cache, absent>>
         ]_vars

\* a prePopulate call made while a fetch that a render issued is outstanding
C1_Witness ==
    /\ last.op = "prePopulate"
    /\ last.wwd
    /\ fetchCount[last.path] = 1
    /\ \E i \in 1 .. Len(pending) :
           pending[i] = [imagePath |-> last.path, suppressRedraw |-> FALSE]

\* C2: while a failed path's absent mark is inside the cool-down a call issues
\* no fetch and does not put the path in flight; the first call after the
\* cool-down has run out issues exactly one fetch.
C2_AbsentSuppression ==
    [][\A t \in Tiles :
         FetchCallOn(t) =>
             /\ isResourceAbsent(t) =>
                    /\ fetchCount' = fetchCount
                    /\ pending' = pending
                    /\ currentRetrievals' = currentRetrievals
             /\ (absent[t] # NoMark /\ ~isResourceAbsent(t) /\ ~InFlight(t)) =>
                    /\ fetchCount' = [fetchCount EXCEPT ![t] = @ + 1]
                    /\ InFlight(t)'
                    /\ Outstanding(t)' = 1
      ]_vars

\* a path fetched again by a call made after its mark ran out
C2_Witness ==
    /\ last.op \in {"prePopulate", "render"}
    /\ last.wwd
    /\ absent[last.path] # NoMark
    /\ now - absent[last.path] >= CoolDown
    /\ InFlight(last.path)
    /\ fetchCount[last.path] = 2

\* C3: after an image has loaded and its texture was created, the cache holds
\* the path with the texture's size, the path is not in flight and it has no
\* absent mark.
C3_LoadSuccess ==
    (last.op = "onload" /\ last.texture # NoTexture) =>
        /\ containsResource(last.path)
        /\ cache[last.path] = last.texture
        /\ ~InFlight(last.path)
        /\ absent[last.path] = NoMark

\* C4: after a fetch has failed the path is not in flight, is marked absent
\* at the current time and is not in the cache, no redraw has been requested
\* and the callback has thrown nothing.
C4_LoadFailure ==
    last.op = "onerror" =>
        /\ ~InFlight(last.path)
        /\ absent[last.path] = now
        /\ ~containsResource(last.path)
        /\ redraws = 0
        /\ ret.thrown = ""

\* C5: a call for a path the cache holds, from prePopulate or from a render,
\* issues no fetch and changes nothing of the in-flight list, the cache and
\* the absent list.
C5_CachedIsNoOp ==
    [][\A t \in Tiles :
         (FetchCallOn(t) /\ containsResource(t)) => UNCHANGED fetchVars
      ]_vars

C5_Witness ==
    /\ last.op = "prePopulate"
    /\ last.wwd
    /\ containsResource(last.path)
    /\ ~InFlight(last.path)

\* C6: a load that created a texture for a fetch issued with the redraw not
\* suppressed has requested a redraw.
C6_RedrawOncePerLoad ==
    (/\ last.op = "onload"
     /\ last.texture # NoTexture
     /\ ~last.suppressRedraw)
        => redraws > 0

---------------------------------------------------------------------------
(* Claims about the time-series layer (SpecIndex) *)

\* the period divides end - start
Divides == intervalMilliseconds % seq.period = 0

OrdinalKeys ==
    <<"00", "01", "02", "03", "04", "05", "06", "07", "08", "09",
      "10", "11", "12", "13", "14", "15", "16", "17", "18", "19",
      "20", "21", "22", "23", "24", "25", "26", "27", "28", "29",
      "30", "31", "32", "33", "34", "35", "36", "37", "38", "39",
      "40", "41", "42", "43", "44", "45", "46", "47", "48", "49">>

\* C7: when the period divides end - start, the build loop leaves
\* (end - start)/period + 1 slots, with the times start, start + period, ...,
\* end in ascending order and the distinct keys "00", "01", ... in that order;
\* the program's sequence gives 49 slots.
C7_BuildSlots ==
    Divides =>
        \A l \in Layers :
            LET names == layerNames[l]
                n == Len(names)
            IN  n > 0 =>
                    /\ n = intervalMilliseconds \div seq.period + 1
                    /\ n = Len(availableTimes)
                    /\ \A i \in 1 .. n :
                           /\ names[i].time = seq.start + (i - 1) * seq.period
                           /\ availableTimes[i] = names[i].time
                           /\ names[i].month = OrdinalKeys[i]
                    /\ \A i, j \in 1 .. n :
                           i < j => /\ names[i].time < names[j].time
                                    /\ names[i].month # names[j].month
                    /\ names[1].time = seq.start
                    /\ names[n].time = seq.end
                    /\ seq = ProgramSequence => n = 49

\* the program's sequence has been built
C7_Witness ==
    /\ seq = ProgramSequence
    /\ last.op = "prePopulate"
    /\ Len(layerNames[last.layer]) = 49
    /\ layerNames[last.layer][49] = [month |-> "48", time |-> 288]

\* C8: on a layer that has slots, nearestLayerName returns the key of one of
\* the slots for every time; the first slot's key for a time at or before the
\* first slot's time, the last slot's key for a time at or after the last
\* slot's time.
C8_NearestIsSlot ==
    (last.op = "nearestLayerName" /\ Len(layerNames[last.layer]) > 0) =>
        LET names == layerNames[last.layer]
            n == Len(names)
        IN  /\ ret.thrown = ""
            /\ \E i \in 1 .. n : ret.name = names[i].month
            /\ last.time <= names[1].time => ret.name = names[1].month
            /\ last.time >= names[n].time => ret.name = names[n].month

\* C9: for a time exactly half way between two adjacent slots
\* nearestLayerName returns the key of the earlier one.
C9_TieGoesLeft ==
    (last.op = "nearestLayerName" /\ Len(layerNames[last.layer]) > 1) =>
        LET names == layerNames[last.layer]
        IN  \A i \in 1 .. Len(names) - 1 :
                (/\ names[i].time < last.time
                 /\ last.time < names[i + 1].time
                 /\ last.time - names[i].time = names[i + 1].time - last.time)
                    => ret.name = names[i].month

\* C10: isPrePopulated returns true exactly when the cache holds the image of
\* every slot of the layer.
C10_PrePopulatedIffAllReady ==
    (last.op = "isPrePopulated" /\ last.layer \in Layers /\ last.wwd) =>
        (ret.bool <=>
            \A i \in 1 .. Len(layerNames[last.layer]) :
                containsResource(dataPath(layerNames[last.layer][i].month)))

---------------------------------------------------------------------------
(* Claims about the time-series layer and its images (SpecRender) *)

\* the image path of slot i of layer l
slotPath(l, i) == dataPath(layerNames[l][i].month)

\* C11: when prePopulate has returned, every slot's image is in the cache, in
\* flight, or held back by an absent mark inside its cool-down.
C11_EverySlotRequested ==
    (last.op = "prePopulate" /\ last.wwd /\ last.layer \in Layers) =>
        \A i \in 1 .. Len(layerNames[last.layer]) :
            \/ containsResource(slotPath(last.layer, i))
            \/ InFlight(slotPath(last.layer, i))
            \/ isResourceAbsent(slotPath(last.layer, i))

\* C12: after prePopulate, isPrePopulated is false as long as the image of
\* some slot of the layer has not been loaded into the cache.
C12_FalseUntilAllLoaded ==
    (/\ last.op = "isPrePopulated"
     /\ last.layer \in Layers
     /\ Len(layerNames[last.layer]) > 0
     /\ \E i \in 1 .. Len(layerNames[last.layer]) :
            ~containsResource(slotPath(last.layer, i)))
        => ~ret.bool

---------------------------------------------------------------------------
(* Further claims about the time-series layer (SpecIndex) *)

\* C13: a prePopulate on a layer that already has (end - start)/period + 1
\* slots leaves the slots (times, keys, order), the list of available times
\* and the layer's sub-layers as they were.
C13_BuildIdempotent ==
    [][\A l \in Layers :
         (/\ last'.op = "prePopulate"
          /\ last'.layer = l
          /\ Divides
          /\ Len(layerNames[l]) = intervalMilliseconds \div seq.period + 1)
             => /\ layerNames'[l] = layerNames[l]
                /\ availableTimes' = availableTimes
                /\ layers'[l] = layers[l]
                /\ currentTime'[l] = currentTime[l]
      ]_vars

\* a prePopulate of a layer with several slots that did not run the build loop
C13_Witness ==
    /\ last.op = "prePopulate"
    /\ last.wwd
    /\ ~last.rebuild
    /\ Divides
    /\ Len(layerNames[last.layer]) = intervalMilliseconds \div seq.period + 1
    /\ Len(layerNames[last.layer]) > 1

---------------------------------------------------------------------------
(* Further claims about the time-series layer and its images (SpecRender) *)

\* C14: nearestLayerName, and a render, on a layer that has no slot throws at
\* once, returns no name, creates no sub-layer and issues no fetch.
C14_EmptyIndexThrows ==
    [][\A l \in Layers :
         (/\ last'.op \in {"nearestLayerName", "render"}
          /\ last'.layer = l
          /\ Len(layerNames[l]) = 0)
             => /\ ret'.thrown = "TypeError"
                /\ ret'.name = ""
                /\ layers' = layers
                /\ UNCHANGED fetchVars
      ]_vars

\* a render of a layer without slots has thrown, in a process where another
\* layer has its slots
C14_Witness ==
    /\ last.op = "render"
    /\ Len(layerNames[last.layer]) = 0
    /\ ret.thrown = "TypeError"
    /\ layers[last.layer] = {}
    /\ \E l \in Layers : Len(layerNames[l]) > 0

---------------------------------------------------------------------------
(* Further claims about the time-series layer (SpecIndex), continued *)

\* C15: when the period does not divide end - start, prePopulate throws and
\* no layer gets a slot.
C15_InvalidRangeRejected ==
    ~Divides =>
        /\ (last.op = "prePopulate" /\ last.wwd) => ret.thrown # ""
        /\ \A l \in Layers : Len(layerNames[l]) = 0

\* C16: prePopulate and isPrePopulated called without a world window throw.
C16_MissingWorldWindowThrows ==
    (last.op \in {"prePopulate", "isPrePopulated"} /\ ~last.wwd) =>
        ret.thrown # ""

---------------------------------------------------------------------------
(* Further claims about the time-series layer and its images (SpecRender),
   continued *)

\* C17: a render at the exact time of a slot whose image failed to load
\* throws nothing and renders that slot's own sub-layer, the one of the
\* slot's image path, whose image is still not in the cache.
C17_RenderFailedSlot ==
    (last.op = "render" /\ last.layer \in Layers) =>
        \A i \in 1 .. Len(layerNames[last.layer]) :
            (/\ layerNames[last.layer][i].time = last.time
             /\ absent[slotPath(last.layer, i)] # NoMark)
                => /\ ret.thrown = ""
                   /\ last.path = slotPath(last.layer, i)
                   /\ ~containsResource(slotPath(last.layer, i))

---------------------------------------------------------------------------
(* Further claims about the single-image layer (Spec) *)

\* C18: after a completion the image path is in the cache or marked absent.
C18_CompletionSettles ==
    last.op \in {"onload", "onerror"} =>
        \/ containsResource(last.path)
        \/ absent[last.path] # NoMark

\* the distance between two times
Dist(a, b) == IF a > b THEN a - b ELSE b - a

\* C19: a render of a layer that has slots throws nothing and renders the
\* sub-layer of a slot nearest to the layer's time, whatever the time; the
\* sub-layer exists afterwards under the slot's key.
C19_RenderNearestSlot ==
    (/\ last.op = "render"
     /\ last.layer \in Layers
     /\ Len(layerNames[last.layer]) > 0)
        => /\ ret.thrown = ""
           /\ \E i \in 1 .. Len(layerNames[last.layer]) :
                  /\ last.path = slotPath(last.layer, i)
                  /\ layerNames[last.layer][i].month \in layers[last.layer]
                  /\ \A j \in 1 .. Len(layerNames[last.layer]) :
                         Dist(layerNames[last.layer][i].time, last.time)
                             <= Dist(layerNames[last.layer][j].time, last.time)

---------------------------------------------------------------------------
(* Further claims about the time-series layer (SpecIndex), the nearest slot *)

\* C20: for a time strictly between the first and the last slot's time
\* nearestLayerName returns the key of a slot that no other slot is closer
\* to the time than.
C20_NearestMinimises ==
    (/\ last.op = "nearestLayerName"
     /\ Divides
     /\ Len(layerNames[last.layer]) > 1
     /\ layerNames[last.layer][1].time < last.time
     /\ last.time < layerNames[last.layer][Len(layerNames[last.layer])].time)
        => \E i \in 1 .. Len(layerNames[last.layer]) :
               /\ ret.name = layerNames[last.layer][i].month
               /\ \A j \in 1 .. Len(layerNames[last.layer]) :
                      Dist(layerNames[last.layer][i].time, last.time)
                          <= Dist(layerNames[last.layer][j].time, last.time)

---------------------------------------------------------------------------
(* Claims about the slots of the layers of one process (SpecIndex) *)

\* C21: the slots of every layer are in strictly ascending order of time,
\* with no time twice, and every time lies between the sequence's start and
\* end.
C21_SlotsAscendingInRange ==
    \A l \in Layers :
        \A i \in 1 .. Len(layerNames[l]) :
            /\ seq.start <= layerNames[l][i].time
            /\ layerNames[l][i].time <= seq.end
            /\ i < Len(layerNames[l]) =>
                   layerNames[l][i].time < layerNames[l][i + 1].time

\* C22: when the period divides end - start, a layer on which prePopulate has
\* returned has its own (end - start)/period + 1 slots, whatever layers were
\* pre-populated before it.
C22_OwnSlotsAfterPrePopulate ==
    (/\ last.op = "prePopulate"
     /\ last.wwd
     /\ last.layer \in Layers
     /\ Divides)
        => Len(layerNames[last.layer]) = intervalMilliseconds \div seq.period + 1

---------------------------------------------------------------------------
(* Claims about the sub-layers of a layer (SpecRender) *)

\* C23: every sub-layer a layer has is kept under the key of one of the
\* layer's slots (its image path is then the data path of that key).
C23_SubLayersAreSlots ==
    \A l \in Layers :
        \A name \in layers[l] :
            \E i \in 1 .. Len(layerNames[l]) : name = layerNames[l][i].month

---------------------------------------------------------------------------
(* Claims about the life of a fetch (Spec) *)

\* C24: a path the cache holds is held by the cache, with the same texture,
\* after every step, and no step issues a fetch for it.
C24_ReadyIsTerminal ==
    [][\A t \in Tiles :
         containsResource(t) =>
             /\ containsResource(t)'
             /\ cache'[t] = cache[t]
             /\ fetchCount'[t] = fetchCount[t]
             /\ ~InFlight(t)'
      ]_vars

\* the fetch of another path has failed after the clock moved, while the
\* cache holds a path for which no fetch was ever issued
C24_Witness ==
    /\ last.op = "onerror"
    /\ now > 0
    /\ \E t \in Tiles :
           /\ t # last.path
           /\ containsResource(t)
           /\ fetchCount[t] = 0
           /\ ~InFlight(t)

\* C25: a fetch is issued only by a prePopulate or render call for its path,
\* never by a completion, a poll or the passing of time; for a path that
\* carries the mark of a failed fetch the call must come after the cool-down
\* has run out; the cache does not hold the path while it carries the mark,
\* and no step puts a marked path into the cache.
C25_NoBackgroundRetry ==
    /\ [](\A t \in Tiles : absent[t] # NoMark => ~containsResource(t))
    /\ [][\A t \in Tiles : fetchCount'[t] # fetchCount[t] => FetchCallOn(t)]_vars
    /\ [][\A t \in Tiles :
            absent[t] # NoMark =>
                /\ fetchCount'[t] # fetchCount[t] =>
                       /\ FetchCallOn(t)
                       /\ now - absent[t] >= CoolDown
                /\ ~containsResource(t)'
         ]_vars

\* a poll finds a failed path not ready after its cool-down has run out, no
\* fetch having been issued for it since the failure
C25_Witness ==
    /\ last.op = "isPrePopulated"
    /\ last.wwd
    /\ ~ret.bool
    /\ absent[last.path] # NoMark
    /\ now - absent[last.path] >= CoolDown
    /\ fetchCount[last.path] = 1
    /\ ~InFlight(last.path)

\* the cache, the in-flight list and the absent list
fetchState ==
    [cache |-> cache, currentRetrievals |-> currentRetrievals, absent |-> absent]

\* what the completion at time at of the fetch of imagePath makes of st:
\* image.onerror when failed (the path leaves the in-flight list and is
\* marked), else image.onload, which ends before it changes anything
afterCompletion(st, imagePath, failed, texture, at) ==
    LET index == indexOf(st.currentRetrievals, imagePath)
    IN  IF ~failed THEN st
        ELSE [cache |-> st.cache,
              currentRetrievals |->
                  IF index > -1 THEN RemoveAt(st.currentRetrievals, index + 1)
                  ELSE st.currentRetrievals,
              absent |-> [st.absent EXCEPT ![imagePath] = at]]

\* how a fetch can end: onerror, or onload with or without a texture
Outcomes ==
    {[failed |-> TRUE, texture |-> NoTexture]} \cup
    {[failed |-> FALSE, texture |-> x] : x \in {NoTexture} \cup Sizes}

marked(st) == {t \in DOMAIN st.absent : st.absent[t] # NoMark}

\* C27: a completion changes the cache entry, the in-flight membership and
\* the absent mark of its own path only; and of any two outstanding fetches
\* with given outcomes, completing one then the other leaves the same cache,
\* in-flight list and marked paths as the other order, and the same absent
\* list when both arrive at the same time (a mark carries its arrival time).
\* The first completion arrives now, the second now or one unit later; the
\* roles of the two fetches are exchanged by exchanging their outcomes.
C27_Independent ==
    /\ [][last'.op \in {"onload", "onerror"} =>
            /\ fetchState' = afterCompletion(fetchState, last'.path,
                                 last'.op = "onerror", last'.texture, now)
            /\ \A t \in Tiles \ {last'.path} :
                   /\ cache'[t] = cache[t]
                   /\ absent'[t] = absent[t]
                   /\ InFlight(t)' = InFlight(t)
                   /\ Outstanding(t)' = Outstanding(t)
         ]_vars
    /\ [](\A i, j \in 1 .. Len(pending) :
            i < j =>
              \A oi, oj \in Outcomes :
                \A t1 \in {now}, t2 \in {now, now + 1} :
                  t1 <= t2 =>
                    LET x == pending[i].imagePath
                        y == pending[j].imagePath
                        xy == afterCompletion(
                                  afterCompletion(fetchState, x, oi.failed,
                                                  oi.texture, t1),
                                  y, oj.failed, oj.texture, t2)
                        yx == afterCompletion(
                                  afterCompletion(fetchState, y, oj.failed,
                                                  oj.texture, t1),
                                  x, oi.failed, oi.texture, t2)
                    IN  /\ xy.cache = yx.cache
                        /\ xy.currentRetrievals = yx.currentRetrievals
                        /\ marked(xy) = marked(yx)
                        /\ t1 = t2 => xy.absent = yx.absent)

\* the fetch of one path has failed while the fetch of another, issued
\* before the clock moved, is still outstanding and untouched
C27_Witness ==
    /\ last.op = "onerror"
    /\ now > 0
    /\ absent[last.path] = now
    /\ \E t \in Tiles :
           /\ t # last.path
           /\ InFlight(t)
           /\ Outstanding(t) = 1
           /\ absent[t] = NoMark
           /\ ~containsResource(t)

\* C27 as stated: the two orders leave the same absent list, whatever the
\* times at which the two completions arrive.
C27_SameAbsentListInEveryOrder ==
    \A i, j \in 1 .. Len(pending) :
        i < j =>
          \A oi, oj \in Outcomes :
            \A t1 \in {now}, t2 \in {now, now + 1} :
              t1 <= t2 =>
                LET x == pending[i].imagePath
                    y == pending[j].imagePath
                    xy == afterCompletion(
                              afterCompletion(fetchState, x, oi.failed,
                                              oi.texture, t1),
                              y, oj.failed, oj.texture, t2)
                    yx == afterCompletion(
                              afterCompletion(fetchState, y, oj.failed,
                                              oj.texture, t1),
                              x, oi.failed, oi.texture, t2)
                IN  /\ xy.cache = yx.cache
                    /\ xy.currentRetrievals = yx.currentRetrievals
                    /\ xy.absent = yx.absent

\* C29: no path is both in the in-flight list and in the cache, and no path
\* is both in the in-flight list and under an absent mark whose cool-down
\* has not run out.
C29_FetchStatesExclusive ==
    \A t \in Tiles :
        /\ ~(InFlight(t) /\ containsResource(t))
        /\ ~(InFlight(t) /\ isResourceAbsent(t))

\* a path whose mark of an earlier failure has run out has been put in
\* flight again by a call, while the cache holds another path
C29_Witness ==
    /\ last.op \in {"prePopulate", "render"}
    /\ InFlight(last.path)
    /\ Outstanding(last.path) = 1
    /\ absent[last.path] # NoMark
    /\ ~isResourceAbsent(last.path)
    /\ ~containsResource(last.path)
    /\ \E t \in Tiles : containsResource(t) /\ ~InFlight(t)

===========================================================================
